---- MODULE Spec2Model ----
(***************************************************************************)
(* resto-match-backend: the Express request pipeline (token verifier, role *)
(* gate, request validator, resource handler) over the Mongo collections   *)
(* User, MenuItem, Order and Reservation.                                  *)
(*                                                                         *)
(* One action per registered route.  An action runs the route's middleware *)
(* chain and its handler to the response, and records the request and the  *)
(* response in `last`.  The routes whose concurrent requests are studied   *)
(* (register, POST /staff, the role update) have one action per await: a   *)
(* request suspended at an await waits in `inflight`.                      *)
(***************************************************************************)
EXTENDS Integers, Sequences, FiniteSets, Bags, TLC

VARIABLES
  users,         \* collection User:        ObjectId -> document
  menuItems,     \* collection MenuItem:    ObjectId -> document
  orders,        \* collection Order:       ObjectId -> document
  reservations,  \* collection Reservation: ObjectId -> document
  nextId,        \* index in IdPool of the next ObjectId the driver generates
  issued,        \* payloads of the tokens signed so far (jwt.sign)
  last,          \* the last request and its response
  now,           \* the clock jwt.sign and jwt.verify read
  inflight       \* bag of the requests suspended at an await of their handler

vars == <<users, menuItems, orders, reservations, nextId, issued, last, now, inflight>>

store == <<users, menuItems, orders, reservations>>

----------------------------------------------------------------------------
(* Bounds *)

\* Number of orders, menu items and reservations the API may insert.
MaxOrders == 2

MaxMenuItems == 2

MaxReservations == 1

\* Number of users the API may insert.
MaxUsers == 2

\* Number of requests that may be suspended at an await at the same time.
MaxInflight == 2

\* The clock stops at MaxTime.
MaxTime == 3

\* process.env.JWT_EXPIRE, in ticks of the clock.
JwtExpire == 2

----------------------------------------------------------------------------
(* ObjectIds, request parameters *)

\* The ObjectIds the driver hands out, in generation order.
IdPool == <<"id01", "id02", "id03", "id04", "id05", "id06", "id07", "id08", "id09", "id10">>

\* The users present when the server starts: an admin, a staff member and
\* a client.
SeedUsers ==
  <<[role |-> "admin",  email |-> "admin@resto", salary |-> 3000,
     name |-> "Ada", password |-> <<"bcrypt", "secret1">>],
    [role |-> "staff",  email |-> "staff@resto", salary |-> 2000,
     name |-> "Sam", password |-> <<"bcrypt", "secret1">>],
    [role |-> "client", email |-> "a@mail",
     name |-> "Cleo", password |-> <<"bcrypt", "secret1">>]>>

ObjectIds == {IdPool[i] : i \in 1..Len(IdPool)}

UserIds == {IdPool[i] : i \in 1..Len(SeedUsers)}

\* Values of req.params.id that are ObjectIds: the ids that up to n inserted
\* documents can have, and one ObjectId that is never theirs.
PathIds(n) == {IdPool[i] : i \in Len(SeedUsers)..(Len(SeedUsers) + n)}

Absent == "undefined"

Roles == {"client", "staff", "admin"}

----------------------------------------------------------------------------
(* Tokens: the x-auth-token header *)

NoToken == [kind |-> "none", id |-> "", role |-> "", exp |-> 0]

BadToken == [kind |-> "invalid", id |-> "", role |-> "", exp |-> 0]

\* jwt.sign(payload, secret, {expiresIn}): the payload carries the user's id
\* and role and the expiry exp = iat + expiresIn.
Payload(id, role, iat) == [id |-> id, role |-> role, exp |-> iat + JwtExpire]

Sign(claims) == [kind |-> "valid", id |-> claims.id, role |-> claims.role, exp |-> claims.exp]

\* What a caller can put in the header.
Tokens == {NoToken, BadToken} \cup {Sign(c) : c \in issued}

----------------------------------------------------------------------------
(* Middleware *)

\* req.user before the token verifier has run.
Undefined == [defined |-> FALSE, id |-> "", role |-> ""]

\* A request on its way down a chain: status 0 while no response was sent;
\* at is the time the request arrived.
NewReq == [user |-> Undefined, status |-> 0, trace |-> <<>>, at |-> now]

\* A verifier that ignores the expiry.
VerifiesIgnoringExpiry(token) == token.kind = "valid"

\* jwt.verify: the signature must match and the clock must be before exp.
Verifies(token) == token.kind = "valid" /\ now < token.exp

\* middleware/auth.js
auth(req, token) ==
  LET r == [req EXCEPT !.trace = Append(@, "auth")] IN
  IF token.kind = "none" THEN [r EXCEPT !.status = 401]
  ELSE IF ~Verifies(token) THEN [r EXCEPT !.status = 401]
  ELSE [r EXCEPT !.user = [defined |-> TRUE, id |-> token.id, role |-> token.role]]

\* middleware/checkRole.js; reading req.user.role of an undefined req.user
\* throws, and the error middleware of server.js answers 500.
checkRole(roles, req) ==
  LET r == [req EXCEPT !.trace = Append(@, "checkRole")] IN
  IF ~req.user.defined THEN [r EXCEPT !.status = 500]
  ELSE IF req.user.role \notin roles THEN [r EXCEPT !.status = 403]
  ELSE r

\* routes/admin.js isAdmin: the role is read from the stored user.
isAdmin(req, us) ==
  LET r == [req EXCEPT !.trace = Append(@, "isAdmin")] IN
  IF req.user.id \notin DOMAIN us THEN [r EXCEPT !.status = 500]
  ELSE IF us[req.user.id].role # "admin" THEN [r EXCEPT !.status = 403]
  ELSE r

\* express-validator check(...): records its findings, never responds.
check(req) == [req EXCEPT !.trace = Append(@, "check")]

Mw(name, roles) == [mw |-> name, roles |-> roles]

Step(m, req, token, us) ==
  IF m.mw = "auth" THEN auth(req, token)
  ELSE IF m.mw = "checkRole" THEN checkRole(m.roles, req)
  ELSE IF m.mw = "isAdmin" THEN isAdmin(req, us)
  ELSE check(req)

\* Express runs the middleware of a route in order until one responds.
RECURSIVE Run(_, _, _, _)
Run(chain, req, token, us) ==
  IF chain = <<>> \/ req.status # 0 THEN req
  ELSE Run(Tail(chain), Step(Head(chain), req, token, us), token, us)

RunChain(chain, token) == Run(chain, NewReq, token, users)

----------------------------------------------------------------------------
(* Responses *)

\* The body of a request that carries none.
NoBody == [f \in {} |-> Absent]

Response(route, token, id, req) ==
  [route |-> route, token |-> token, id |-> id, status |-> req.status,
   trace |-> req.trace, ids |-> {}, doc |-> "", docStatus |-> "",
   errs |-> {}, names |-> {}, count |-> 0, body |-> NoBody,
   user |-> req.user, at |-> req.at]

Handled(req) == [req EXCEPT !.trace = Append(@, "handler")]

Answer(req, code) == [Handled(req) EXCEPT !.status = code]

\* A collection without documents.
EmptyColl == [id \in {} |-> Absent]

\* doc.save() of a new document, doc.remove() of a stored one.
Insert(coll, id, doc) == [x \in DOMAIN coll \cup {id} |-> IF x = id THEN doc ELSE coll[x]]

Remove(coll, id) == [x \in DOMAIN coll \ {id} |-> coll[x]]

\* A JSON body is a record of the fields it carries.
Has(body, field) == field \in DOMAIN body

Drop(body, fields) == [f \in DOMAIN body \ fields |-> body[f]]

\* Model.findById / findByIdAndUpdate: a malformed id is a CastError, an
\* unknown one resolves to null.
FindById(coll, id) ==
  IF id \notin ObjectIds THEN "CastError"
  ELSE IF id \notin DOMAIN coll THEN "null"
  ELSE "found"

\* String forms compared by the handlers: ObjectId.toString() is the hex
\* string, Document.toString() is the inspect rendering of the document.
HexStr(id) == <<"hex", id>>

InspectStr(id) == <<"inspect", id>>

----------------------------------------------------------------------------
Init ==
  /\ users = [u \in UserIds |-> SeedUsers[CHOOSE i \in 1..Len(SeedUsers) : IdPool[i] = u]]
  /\ menuItems = EmptyColl
  /\ orders = EmptyColl
  /\ reservations = EmptyColl
  /\ nextId = Len(SeedUsers) + 1
  /\ issued = {Payload(u, SeedUsers[CHOOSE i \in 1..Len(SeedUsers) : IdPool[i] = u].role, 0) : u \in UserIds}
  /\ now = 0
  /\ inflight = EmptyBag
  /\ last = Response("none", NoToken, "", NewReq)

----------------------------------------------------------------------------
(* routes/orders.js *)

\* models/Order.js: the status enum and its default.
OrderStatuses == {"pending", "preparing", "ready", "delivered", "cancelled"}

OrderDefaults == [status |-> "pending"]

\* Request bodies of POST /orders: the bodies the rules accept, with and
\* without the fields the schema fills in, and the bodies they reject.
OrderBodies ==
  {Drop(b, S) : b \in [items : {"array"}, totalAmount : {10},
                       status : {"preparing"}, user : {IdPool[1]}],
                S \in SUBSET {"status", "user"}}
    \cup {[items |-> "array"], [totalAmount |-> 10], [items |-> "array", totalAmount |-> -1]}

\* The check(...) rules of POST /orders: the fields reported in errors.array().
OrderErrors(body) ==
  {f \in {"items"} : ~Has(body, f)}
    \cup {f \in {"totalAmount"} : ~Has(body, f) \/ body[f] < 0}

\* new Order({ user: req.user.id, ...req.body })
NewOrder(uid, body) ==
  [user |-> IF Has(body, "user") THEN body.user ELSE uid,
   status |-> IF Has(body, "status") THEN body.status ELSE OrderDefaults.status,
   totalAmount |-> body.totalAmount]

\* POST /api/orders
OrdersPost(token, body) ==
  LET req == RunChain(<<Mw("auth", {}), Mw("check", {})>>, token)
      rsp(r) == [Response("POST /orders", token, "", r) EXCEPT !.body = body]
      id == IdPool[nextId]
      doc == NewOrder(req.user.id, body)
  IN
  IF req.status # 0
  THEN /\ last' = rsp(req)
       /\ UNCHANGED <<users, menuItems, orders, reservations, nextId, issued, now, inflight>>
  ELSE IF OrderErrors(body) # {}
  THEN /\ last' = [rsp(Answer(req, 400)) EXCEPT !.errs = OrderErrors(body)]
       /\ UNCHANGED <<users, menuItems, orders, reservations, nextId, issued, now, inflight>>
  ELSE /\ nextId <= Len(SeedUsers) + MaxOrders
       /\ orders' = Insert(orders, id, doc)
       /\ nextId' = nextId + 1
       /\ last' = [rsp(Answer(req, 200)) EXCEPT !.doc = id, !.docStatus = doc.status]
       /\ UNCHANGED <<users, menuItems, reservations, issued, now, inflight>>

\* Order.find() for staff and admin, Order.find({ user: req.user.id }) otherwise.
OrdersVisible(user) ==
  IF user.role \in {"staff", "admin"} THEN DOMAIN orders
  ELSE {o \in DOMAIN orders : orders[o].user = user.id}

\* GET /api/orders
OrdersGet(token) ==
  LET req == RunChain(<<Mw("auth", {})>>, token)
      rsp(r) == Response("GET /orders", token, "", r)
  IN
  /\ last' = IF req.status # 0 THEN rsp(req)
             ELSE [rsp(Answer(req, 200)) EXCEPT !.ids = OrdersVisible(req.user)]
  /\ UNCHANGED <<users, menuItems, orders, reservations, nextId, issued, now, inflight>>

\* order.user after .populate('user', ['name', 'email']): the user document,
\* or null when the reference resolves to no user.
PopulatedUser(order) ==
  IF order.user \in DOMAIN users THEN "document" ELSE "null"

\* order.user.toString() on the populated path.
PopulatedUserStr(order) == InspectStr(order.user)

\* The ownership test of GET /api/orders/:id, on the populated order.
GetByIdForbidden(user, order) ==
  user.role = "client" /\ PopulatedUserStr(order) # HexStr(user.id)

\* Values of :id on /api/orders: 'stats' is matched by '/:id', registered
\* before '/stats'.
OrderPathIds == PathIds(MaxOrders) \cup {"stats"}

\* GET /api/orders/:id
OrdersGetById(token, id) ==
  LET req == RunChain(<<Mw("auth", {})>>, token)
      rsp(r) == Response("GET /orders/:id", token, id, r)
      found == FindById(orders, id)
  IN
  /\ last' =
       IF req.status # 0 THEN rsp(req)
       ELSE IF found # "found" THEN rsp(Answer(req, 404))
       ELSE IF req.user.role = "client" /\ PopulatedUser(orders[id]) = "null"
       THEN rsp(Answer(req, 500))
       ELSE IF GetByIdForbidden(req.user, orders[id]) THEN rsp(Answer(req, 403))
       ELSE [rsp(Answer(req, 200)) EXCEPT !.doc = id, !.docStatus = orders[id].status]
  /\ UNCHANGED <<users, menuItems, orders, reservations, nextId, issued, now, inflight>>

\* Request bodies of PUT /orders/:id: the default status, the status of a
\* cancellation, one of the other statuses, and a value outside the enum.
OrderStatusBodies ==
  {Drop(b, S) : b \in [status : {"pending", "preparing", "cancelled", "bogus"}],
                S \in SUBSET {"status"}}

\* findByIdAndUpdate(id, { $set: { status: req.body.status } })
OrderSetStatus(coll, id, status) == [coll EXCEPT ![id].status = status]

\* PUT /api/orders/:id
OrdersPut(token, id, body) ==
  LET req == RunChain(<<Mw("auth", {}), Mw("checkRole", {"staff", "admin"}),
                        Mw("check", {})>>, token)
      rsp(r) == Response("PUT /orders/:id", token, id, r)
      found == FindById(orders, id)
      valid == Has(body, "status") /\ body.status \in OrderStatuses
  IN
  IF req.status # 0
  THEN /\ last' = rsp(req)
       /\ UNCHANGED <<users, menuItems, orders, reservations, nextId, issued, now, inflight>>
  ELSE IF ~valid
  THEN /\ last' = [rsp(Answer(req, 400)) EXCEPT !.errs = {"status"}]
       /\ UNCHANGED <<users, menuItems, orders, reservations, nextId, issued, now, inflight>>
  ELSE IF found # "found"
  THEN /\ last' = rsp(Answer(req, 404))
       /\ UNCHANGED <<users, menuItems, orders, reservations, nextId, issued, now, inflight>>
  ELSE /\ orders' = OrderSetStatus(orders, id, body.status)
       /\ last' = [rsp(Answer(req, 200)) EXCEPT !.doc = id, !.docStatus = body.status]
       /\ UNCHANGED <<users, menuItems, reservations, nextId, issued, now, inflight>>

\* The ownership test of DELETE /api/orders/:id, on the unpopulated order.
DeleteForbidden(user, order) ==
  user.role = "client" /\ HexStr(order.user) # HexStr(user.id)

\* A cancellation that deletes the order.
OrderCancelRemoves(coll, id) == Remove(coll, id)

\* order.status = 'cancelled'; order.save()
OrderCancel(coll, id) == [coll EXCEPT ![id].status = "cancelled"]

\* DELETE /api/orders/:id
OrdersDelete(token, id) ==
  LET req == RunChain(<<Mw("auth", {})>>, token)
      rsp(r) == Response("DELETE /orders/:id", token, id, r)
      found == FindById(orders, id)
  IN
  IF req.status # 0
  THEN /\ last' = rsp(req)
       /\ UNCHANGED <<users, menuItems, orders, reservations, nextId, issued, now, inflight>>
  ELSE IF found # "found"
  THEN /\ last' = rsp(Answer(req, 404))
       /\ UNCHANGED <<users, menuItems, orders, reservations, nextId, issued, now, inflight>>
  ELSE IF DeleteForbidden(req.user, orders[id])
  THEN /\ last' = rsp(Answer(req, 403))
       /\ UNCHANGED <<users, menuItems, orders, reservations, nextId, issued, now, inflight>>
  ELSE /\ orders' = OrderCancel(orders, id)
       /\ last' = rsp(Answer(req, 200))
       /\ UNCHANGED <<users, menuItems, reservations, nextId, issued, now, inflight>>

NextOrders ==
  \/ \E token \in Tokens, body \in OrderBodies : OrdersPost(token, body)
  \/ \E token \in Tokens : OrdersGet(token)
  \/ \E token \in Tokens, id \in OrderPathIds : OrdersGetById(token, id)
  \/ \E token \in Tokens, id \in OrderPathIds, body \in OrderStatusBodies : OrdersPut(token, id, body)
  \/ \E token \in Tokens, id \in OrderPathIds : OrdersDelete(token, id)

SpecOrders == Init /\ [][NextOrders]_vars

----------------------------------------------------------------------------
(* routes/menu.js *)

\* models/MenuItem.js: the category enum.
MenuCategories == {"Entrées", "Plats", "Desserts", "Boissons"}

\* MenuItem.find({ available: true })
MenuList(coll) == {m \in DOMAIN coll : coll[m].available}

\* GET /api/menu
MenuGet ==
  /\ last' = [Response("GET /menu", NoToken, "", Answer(NewReq, 200))
                EXCEPT !.ids = MenuList(menuItems)]
  /\ UNCHANGED <<users, menuItems, orders, reservations, nextId, issued, now, inflight>>

\* Request bodies of POST /menu; name stands for the three text fields
\* name, description and image, which the handler treats alike.
MenuBodies ==
  {Drop(b, S) : b \in [name : {"plat"}, price : {8, 0}, category : {"Plats", "Pizza"},
                       available : BOOLEAN],
                S \in {{}, {"available"}, {"name"}, {"price"}}}

\* The check(...) rules of POST /menu.
MenuErrors(body) ==
  {f \in {"name"} : ~Has(body, f)}
    \cup {f \in {"price"} : ~Has(body, f) \/ body[f] < 0}
    \cup {f \in {"category"} : ~Has(body, f) \/ body[f] \notin MenuCategories}

\* The handler's own tests: !req.body.price, then isNaN(price) || price <= 0.
MenuPriceRejected(body) == body.price <= 0

\* new MenuItem({ ..., available: req.body.available !== undefined ? ... : true })
NewMenuItem(body) ==
  [name |-> body.name, price |-> body.price, category |-> body.category,
   available |-> IF Has(body, "available") THEN body.available ELSE TRUE]

\* POST /api/menu
MenuPost(token, body) ==
  LET req == RunChain(<<Mw("auth", {}), Mw("checkRole", {"staff", "admin"}),
                        Mw("check", {})>>, token)
      rsp(r) == Response("POST /menu", token, "", r)
      id == IdPool[nextId]
  IN
  IF req.status # 0
  THEN /\ last' = rsp(req)
       /\ UNCHANGED <<users, menuItems, orders, reservations, nextId, issued, now, inflight>>
  ELSE IF MenuErrors(body) # {}
  THEN /\ last' = [rsp(Answer(req, 400)) EXCEPT !.errs = MenuErrors(body)]
       /\ UNCHANGED <<users, menuItems, orders, reservations, nextId, issued, now, inflight>>
  ELSE IF MenuPriceRejected(body)
  THEN /\ last' = [rsp(Answer(req, 400)) EXCEPT !.errs = {"price"}]
       /\ UNCHANGED <<users, menuItems, orders, reservations, nextId, issued, now, inflight>>
  ELSE /\ nextId <= Len(SeedUsers) + MaxMenuItems
       /\ menuItems' = Insert(menuItems, id, NewMenuItem(body))
       /\ nextId' = nextId + 1
       /\ last' = [rsp(Answer(req, 200)) EXCEPT !.doc = id]
       /\ UNCHANGED <<users, orders, reservations, issued, now, inflight>>

\* Request bodies of PUT /menu/:id, which declares no rule.
MenuUpdates ==
  {Drop(b, S) : b \in [price : {5}, available : BOOLEAN],
                S \in SUBSET {"price", "available"}}

\* findByIdAndUpdate(id, { $set: req.body })
SetFields(doc, body) ==
  [f \in DOMAIN doc \cup DOMAIN body |-> IF Has(body, f) THEN body[f] ELSE doc[f]]

\* PUT /api/menu/:id
MenuPut(token, id, body) ==
  LET req == RunChain(<<Mw("auth", {}), Mw("checkRole", {"staff", "admin"})>>, token)
      rsp(r) == Response("PUT /menu/:id", token, id, r)
  IN
  IF req.status # 0
  THEN /\ last' = rsp(req)
       /\ UNCHANGED <<users, menuItems, orders, reservations, nextId, issued, now, inflight>>
  ELSE IF FindById(menuItems, id) # "found"
  THEN /\ last' = rsp(Answer(req, 404))
       /\ UNCHANGED <<users, menuItems, orders, reservations, nextId, issued, now, inflight>>
  ELSE /\ menuItems' = [menuItems EXCEPT ![id] = SetFields(@, body)]
       /\ last' = [rsp(Answer(req, 200)) EXCEPT !.doc = id]
       /\ UNCHANGED <<users, orders, reservations, nextId, issued, now, inflight>>

\* A deletion that removes the menu item.
MenuHardDelete(coll, id) == Remove(coll, id)

\* menuItem.available = false; menuItem.save()
MenuSoftDelete(coll, id) == [coll EXCEPT ![id].available = FALSE]

\* DELETE /api/menu/:id
MenuDelete(token, id) ==
  LET req == RunChain(<<Mw("auth", {}), Mw("checkRole", {"staff", "admin"})>>, token)
      rsp(r) == Response("DELETE /menu/:id", token, id, r)
  IN
  IF req.status # 0
  THEN /\ last' = rsp(req)
       /\ UNCHANGED <<users, menuItems, orders, reservations, nextId, issued, now, inflight>>
  ELSE IF FindById(menuItems, id) # "found"
  THEN /\ last' = rsp(Answer(req, 404))
       /\ UNCHANGED <<users, menuItems, orders, reservations, nextId, issued, now, inflight>>
  ELSE /\ menuItems' = MenuSoftDelete(menuItems, id)
       /\ last' = rsp(Answer(req, 200))
       /\ UNCHANGED <<users, orders, reservations, nextId, issued, now, inflight>>

\* GET /api/menu/categories: MenuItem.distinct('category')
MenuGetCategories ==
  /\ last' = [Response("GET /menu/categories", NoToken, "", Answer(NewReq, 200))
                EXCEPT !.names = {menuItems[m].category : m \in DOMAIN menuItems}]
  /\ UNCHANGED <<users, menuItems, orders, reservations, nextId, issued, now, inflight>>

\* GET /api/menu/stats: MenuItem.countDocuments({ available: true })
MenuGetStats(token) ==
  LET req == RunChain(<<Mw("auth", {}), Mw("checkRole", {"staff", "admin"})>>, token)
      rsp(r) == Response("GET /menu/stats", token, "", r)
  IN
  /\ last' = IF req.status # 0 THEN rsp(req)
             ELSE [rsp(Answer(req, 200)) EXCEPT !.count = Cardinality(MenuList(menuItems))]
  /\ UNCHANGED <<users, menuItems, orders, reservations, nextId, issued, now, inflight>>

\* Values of :id on /api/menu.
MenuPathIds == PathIds(MaxMenuItems) \cup {"stats"}

NextMenu ==
  \/ MenuGet
  \/ \E token \in Tokens, body \in MenuBodies : MenuPost(token, body)
  \/ \E token \in Tokens, id \in MenuPathIds, body \in MenuUpdates : MenuPut(token, id, body)
  \/ \E token \in Tokens, id \in MenuPathIds : MenuDelete(token, id)
  \/ MenuGetCategories
  \/ \E token \in Tokens : MenuGetStats(token)

SpecMenu == Init /\ [][NextMenu]_vars

----------------------------------------------------------------------------
(* models/Reservation.js, routes/reservations.js *)

ReservationTypes == {"surPlace", "livraison"}

ReservationStatuses == {"pending", "confirmed", "rejected", "delivered", "completed"}

\* The paths of reservationSchema that the requests set.
ReservationPaths ==
  {"name", "email", "phone", "date", "time", "type", "numberOfPeople", "address",
   "totalAmount", "status"}

\* Mongoose validation of a document: the paths that fail.
ReservationInvalid(doc) ==
  {f \in {"name", "email", "phone", "date", "time", "type", "totalAmount"} : ~Has(doc, f)}
    \cup {f \in {"type"} : Has(doc, f) /\ doc[f] \notin ReservationTypes}
    \cup {f \in {"numberOfPeople"} :
            ~Has(doc, f) /\ Has(doc, "type") /\ doc.type = "surPlace"}
    \cup {f \in {"address"} :
            ~Has(doc, f) /\ Has(doc, "type") /\ doc.type = "livraison"}
    \cup {f \in {"status"} : Has(doc, f) /\ doc[f] \notin ReservationStatuses}

\* new Reservation(req.body): the schema's paths of the body (strict mode),
\* and the default of status.
NewReservation(body) ==
  LET set == DOMAIN body \cap ReservationPaths IN
  [f \in set \cup {"status"} |-> IF f \in set THEN body[f] ELSE "pending"]

\* Request bodies of the two create routes: complete bodies of both types,
\* with and without a status, the same with one field left out, and two
\* bodies whose fields break a format rule.
CompleteReservations ==
  [name : {"Ann"}, email : {"ann@mail"}, phone : {"0600"}, date : {"2024-06-01"},
   time : {"20:00"}, guests : {2}, type : ReservationTypes, numberOfPeople : {2},
   address : {"1 rue"}, totalAmount : {30}, status : {"confirmed", "cancelled"}]

ReservationBodies ==
  {Drop(b, S \cup T) : b \in CompleteReservations,
                       S \in {{}} \cup {{f} : f \in (ReservationPaths \cup {"guests"}) \ {"status"}},
                       T \in {{}, {"status"}}}
    \cup {[b EXCEPT !.email = "ann"] : b \in CompleteReservations}
    \cup {[b EXCEPT !.guests = 11] : b \in CompleteReservations}

\* The check(...) rules of POST /reservations.
ReservationErrors(body) ==
  {f \in {"date", "time", "name", "phone"} : ~Has(body, f)}
    \cup {f \in {"guests"} : ~Has(body, f) \/ body[f] < 1 \/ body[f] > 10}
    \cup {f \in {"email"} : ~Has(body, f) \/ body[f] = "ann"}

\* POST /api/reservations
ReservationsPost(body) ==
  LET req == RunChain(<<Mw("check", {})>>, NoToken)
      rsp(r) == [Response("POST /reservations", NoToken, "", r) EXCEPT !.body = body]
      id == IdPool[nextId]
      doc == NewReservation(body)
  IN
  IF ReservationErrors(body) # {}
  THEN /\ last' = [rsp(Answer(req, 400)) EXCEPT !.errs = ReservationErrors(body)]
       /\ UNCHANGED <<users, menuItems, orders, reservations, nextId, issued, now, inflight>>
  ELSE IF ReservationInvalid(doc) # {}
  THEN /\ last' = rsp(Answer(req, 500))
       /\ UNCHANGED <<users, menuItems, orders, reservations, nextId, issued, now, inflight>>
  ELSE /\ nextId <= Len(SeedUsers) + MaxReservations
       /\ reservations' = Insert(reservations, id, doc)
       /\ nextId' = nextId + 1
       /\ last' = [rsp(Answer(req, 200)) EXCEPT !.doc = id, !.docStatus = doc.status]
       /\ UNCHANGED <<users, menuItems, orders, issued, now, inflight>>

\* GET /api/reservations
ReservationsGet(token) ==
  LET req == RunChain(<<Mw("auth", {}), Mw("checkRole", {"staff", "admin"})>>, token)
      rsp(r) == Response("GET /reservations", token, "", r)
  IN
  /\ last' = IF req.status # 0 THEN rsp(req)
             ELSE [rsp(Answer(req, 200)) EXCEPT !.ids = DOMAIN reservations]
  /\ UNCHANGED <<users, menuItems, orders, reservations, nextId, issued, now, inflight>>

\* Values of :id on /api/reservations: 'all' and 'stats' are matched by
\* '/:id', registered before '/all' and '/stats'.
ReservationPathIds == PathIds(MaxReservations) \cup {"all", "stats"}

\* GET /api/reservations/:id
ReservationsGetById(token, id) ==
  LET req == RunChain(<<Mw("auth", {}), Mw("checkRole", {"staff", "admin"})>>, token)
      rsp(r) == Response("GET /reservations/:id", token, id, r)
  IN
  /\ last' =
       IF req.status # 0 THEN rsp(req)
       ELSE IF FindById(reservations, id) # "found" THEN rsp(Answer(req, 404))
       ELSE [rsp(Answer(req, 200)) EXCEPT !.doc = id, !.docStatus = reservations[id].status]
  /\ UNCHANGED <<users, menuItems, orders, reservations, nextId, issued, now, inflight>>

\* Request bodies of PUT /reservations/:id.
ReservationUpdates ==
  {Drop(b, S) : b \in [status : {"confirmed", "cancelled", "rejected"},
                       name : {"Bob"}],
                S \in SUBSET {"status", "name"}}

\* PUT /api/reservations/:id
ReservationsPut(token, id, body) ==
  LET req == RunChain(<<Mw("auth", {}), Mw("checkRole", {"staff", "admin"}),
                        Mw("check", {})>>, token)
      rsp(r) == Response("PUT /reservations/:id", token, id, r)
      valid == Has(body, "status") /\ body.status \in {"pending", "confirmed", "cancelled"}
  IN
  IF req.status # 0
  THEN /\ last' = rsp(req)
       /\ UNCHANGED <<users, menuItems, orders, reservations, nextId, issued, now, inflight>>
  ELSE IF ~valid
  THEN /\ last' = [rsp(Answer(req, 400)) EXCEPT !.errs = {"status"}]
       /\ UNCHANGED <<users, menuItems, orders, reservations, nextId, issued, now, inflight>>
  ELSE IF FindById(reservations, id) # "found"
  THEN /\ last' = rsp(Answer(req, 404))
       /\ UNCHANGED <<users, menuItems, orders, reservations, nextId, issued, now, inflight>>
  ELSE /\ reservations' = [reservations EXCEPT ![id] = SetFields(@, body)]
       /\ last' = [rsp(Answer(req, 200)) EXCEPT !.doc = id, !.docStatus = body.status]
       /\ UNCHANGED <<users, menuItems, orders, nextId, issued, now, inflight>>

\* DELETE /api/reservations/:id
ReservationsDelete(token, id) ==
  LET req == RunChain(<<Mw("auth", {}), Mw("checkRole", {"staff", "admin"})>>, token)
      rsp(r) == Response("DELETE /reservations/:id", token, id, r)
  IN
  IF req.status # 0
  THEN /\ last' = rsp(req)
       /\ UNCHANGED <<users, menuItems, orders, reservations, nextId, issued, now, inflight>>
  ELSE IF FindById(reservations, id) # "found"
  THEN /\ last' = rsp(Answer(req, 404))
       /\ UNCHANGED <<users, menuItems, orders, reservations, nextId, issued, now, inflight>>
  ELSE /\ reservations' = Remove(reservations, id)
       /\ last' = rsp(Answer(req, 200))
       /\ UNCHANGED <<users, menuItems, orders, nextId, issued, now, inflight>>

\* POST /api/reservations/new
ReservationsNew(body) ==
  LET req == RunChain(<<>>, NoToken)
      rsp(r) == [Response("POST /reservations/new", NoToken, "", r) EXCEPT !.body = body]
      id == IdPool[nextId]
      doc == NewReservation(body)
  IN
  IF ReservationInvalid(doc) # {}
  THEN /\ last' = [rsp(Answer(req, 400)) EXCEPT !.errs = ReservationInvalid(doc)]
       /\ UNCHANGED <<users, menuItems, orders, reservations, nextId, issued, now, inflight>>
  ELSE /\ nextId <= Len(SeedUsers) + MaxReservations
       /\ reservations' = Insert(reservations, id, doc)
       /\ nextId' = nextId + 1
       /\ last' = [rsp(Answer(req, 201)) EXCEPT !.doc = id, !.docStatus = doc.status]
       /\ UNCHANGED <<users, menuItems, orders, issued, now, inflight>>

\* Request bodies of PATCH /reservations/:id/status.
StatusBodies == {[status |-> "confirmed"], [status |-> "archived"], NoBody}

\* findByIdAndUpdate(id, { status }): no validator runs on an update; an
\* undefined status is written as null.
ReservationSetStatus(coll, id, body) ==
  [coll EXCEPT ![id].status = IF Has(body, "status") THEN body.status ELSE "null"]

\* PATCH /api/reservations/:id/status
ReservationsPatchStatus(token, id, body) ==
  LET req == RunChain(<<Mw("checkRole", {"admin", "staff"})>>, token)
      rsp(r) == Response("PATCH /reservations/:id/status", token, id, r)
      found == FindById(reservations, id)
  IN
  IF req.status # 0
  THEN /\ last' = rsp(req)
       /\ UNCHANGED <<users, menuItems, orders, reservations, nextId, issued, now, inflight>>
  ELSE IF found = "CastError"
  THEN /\ last' = rsp(Answer(req, 400))
       /\ UNCHANGED <<users, menuItems, orders, reservations, nextId, issued, now, inflight>>
  ELSE IF found = "null"
  THEN /\ last' = rsp(Answer(req, 404))
       /\ UNCHANGED <<users, menuItems, orders, reservations, nextId, issued, now, inflight>>
  ELSE /\ reservations' = ReservationSetStatus(reservations, id, body)
       /\ last' = [rsp(Answer(req, 200)) EXCEPT !.doc = id]
       /\ UNCHANGED <<users, menuItems, orders, nextId, issued, now, inflight>>

NextReservations ==
  \/ \E body \in ReservationBodies : ReservationsPost(body)
  \/ \E token \in Tokens : ReservationsGet(token)
  \/ \E token \in Tokens, id \in ReservationPathIds : ReservationsGetById(token, id)
  \/ \E token \in Tokens, id \in ReservationPathIds, body \in ReservationUpdates :
       ReservationsPut(token, id, body)
  \/ \E token \in Tokens, id \in ReservationPathIds : ReservationsDelete(token, id)
  \/ \E body \in ReservationBodies : ReservationsNew(body)
  \/ \E token \in Tokens, id \in ReservationPathIds, body \in StatusBodies :
       ReservationsPatchStatus(token, id, body)

SpecReservations == Init /\ [][NextReservations]_vars

----------------------------------------------------------------------------
(* Route matching: express tries the routes of a router in the order of      *)
(* their registration and runs the first whose method and path match.        *)

\* The GET routes of routes/orders.js and routes/reservations.js, in the
\* order of registration.
OrdersGetRoutes == <<"/", "/:id", "/stats">>

ReservationsGetRoutes == <<"/", "/:id", "/all", "/stats">>

\* path is the request path below the router's mount point, "" for the root.
Matches(pattern, path) ==
  IF pattern = "/" THEN path = ""
  ELSE IF pattern = "/:id" THEN path # ""
  ELSE IF pattern = "/all" THEN path = "all"
  ELSE pattern = "/stats" /\ path = "stats"

\* The first registered route that matches.
Dispatch(routes, path) ==
  routes[CHOOSE i \in 1..Len(routes) :
           /\ Matches(routes[i], path)
           /\ \A j \in 1..(i - 1) : ~Matches(routes[j], path)]

\* GET /api/orders/stats
OrdersGetStats(token) ==
  LET req == RunChain(<<Mw("auth", {}), Mw("checkRole", {"staff", "admin"})>>, token)
      rsp(r) == Response("GET /orders/stats", token, "stats", r)
  IN
  /\ last' = IF req.status # 0 THEN rsp(req)
             ELSE [rsp(Answer(req, 200)) EXCEPT
                     !.count = Cardinality(DOMAIN orders),
                     !.ids = {o \in DOMAIN orders : orders[o].status \in {"pending", "preparing"}}]
  /\ UNCHANGED <<store, nextId, issued, now, inflight>>

\* GET /api/reservations/all: the role gate without the token verifier.
ReservationsGetAll(token) ==
  LET req == RunChain(<<Mw("checkRole", {"admin", "staff"})>>, token)
      rsp(r) == Response("GET /reservations/all", token, "all", r)
  IN
  /\ last' = IF req.status # 0 THEN rsp(req)
             ELSE [rsp(Answer(req, 200)) EXCEPT !.ids = DOMAIN reservations]
  /\ UNCHANGED <<store, nextId, issued, now, inflight>>

\* GET /api/reservations/stats
ReservationsGetStats(token) ==
  LET req == RunChain(<<Mw("auth", {}), Mw("checkRole", {"staff", "admin"})>>, token)
      rsp(r) == Response("GET /reservations/stats", token, "stats", r)
  IN
  /\ last' = IF req.status # 0 THEN rsp(req)
             ELSE [rsp(Answer(req, 200)) EXCEPT
                     !.count = Cardinality(DOMAIN reservations),
                     !.ids = {x \in DOMAIN reservations : reservations[x].status = "pending"}]
  /\ UNCHANGED <<store, nextId, issued, now, inflight>>

\* A GET request on /api/orders
OrdersGetPath(token, path) ==
  LET route == Dispatch(OrdersGetRoutes, path) IN
  IF route = "/" THEN OrdersGet(token)
  ELSE IF route = "/:id" THEN OrdersGetById(token, path)
  ELSE OrdersGetStats(token)

\* A GET request on /api/reservations
ReservationsGetPath(token, path) ==
  LET route == Dispatch(ReservationsGetRoutes, path) IN
  IF route = "/" THEN ReservationsGet(token)
  ELSE IF route = "/:id" THEN ReservationsGetById(token, path)
  ELSE IF route = "/all" THEN ReservationsGetAll(token)
  ELSE ReservationsGetStats(token)

\* Orders and reservations are created and read by path.
NextDispatch ==
  \/ \E token \in Tokens, body \in {b \in OrderBodies : ~Has(b, "user")} :
       OrdersPost(token, body)
  \/ \E token \in Tokens, path \in OrderPathIds \cup {""} : OrdersGetPath(token, path)
  \/ \E body \in {b \in ReservationBodies : ~Has(b, "status")} : ReservationsNew(body)
  \/ \E token \in Tokens, path \in ReservationPathIds \cup {""} :
       ReservationsGetPath(token, path)

SpecDispatch == Init /\ [][NextDispatch]_vars

----------------------------------------------------------------------------
(* routes/staff.js, routes/admin.js *)

\* models/User.js: salary is required of staff and admin.
UserInvalid(doc) ==
  {f \in {"salary"} : ~Has(doc, f) /\ doc.role \in {"staff", "admin"}}

\* Values of :id and :userId on /api/staff and /api/admin/users.
UserPathIds == UserIds \cup {IdPool[Len(SeedUsers) + 1], "stats"}

\* The role test of DELETE /api/staff/:id.
IsStaffMember(user) == user.role \in {"staff", "admin"}

\* DELETE /api/staff/:id
StaffDelete(token, id) ==
  LET req == RunChain(<<Mw("auth", {}), Mw("checkRole", {"admin"})>>, token)
      rsp(r) == Response("DELETE /staff/:id", token, id, r)
  IN
  IF req.status # 0
  THEN /\ last' = rsp(req)
       /\ UNCHANGED <<users, menuItems, orders, reservations, nextId, issued, now, inflight>>
  ELSE IF FindById(users, id) # "found"
  THEN /\ last' = rsp(Answer(req, 404))
       /\ UNCHANGED <<users, menuItems, orders, reservations, nextId, issued, now, inflight>>
  ELSE IF ~IsStaffMember(users[id])
  THEN /\ last' = rsp(Answer(req, 400))
       /\ UNCHANGED <<users, menuItems, orders, reservations, nextId, issued, now, inflight>>
  ELSE /\ users' = Remove(users, id)
       /\ last' = rsp(Answer(req, 200))
       /\ UNCHANGED <<menuItems, orders, reservations, nextId, issued, now, inflight>>

\* Request bodies of PUT /admin/users/:userId/role.
RoleBodies == {[role |-> r] : r \in Roles \cup {"chef"}} \cup {NoBody}

\* PUT /api/admin/users/:userId/role
AdminPutRole(token, userId, body) ==
  LET req == RunChain(<<Mw("auth", {}), Mw("isAdmin", {})>>, token)
      rsp(r) == Response("PUT /admin/users/:userId/role", token, userId, r)
      found == FindById(users, userId)
      updated == [users[userId] EXCEPT !.role = body.role]
  IN
  IF req.status # 0
  THEN /\ last' = rsp(req)
       /\ UNCHANGED <<users, menuItems, orders, reservations, nextId, issued, now, inflight>>
  ELSE IF ~Has(body, "role") \/ body.role \notin {"client", "staff", "admin"}
  THEN /\ last' = rsp(Answer(req, 400))
       /\ UNCHANGED <<users, menuItems, orders, reservations, nextId, issued, now, inflight>>
  ELSE IF found = "CastError"
  THEN /\ last' = rsp(Answer(req, 500))
       /\ UNCHANGED <<users, menuItems, orders, reservations, nextId, issued, now, inflight>>
  ELSE IF found = "null"
  THEN /\ last' = rsp(Answer(req, 404))
       /\ UNCHANGED <<users, menuItems, orders, reservations, nextId, issued, now, inflight>>
  ELSE IF HexStr(userId) = HexStr(req.user.id) /\ body.role # "admin"
  THEN /\ last' = rsp(Answer(req, 400))
       /\ UNCHANGED <<users, menuItems, orders, reservations, nextId, issued, now, inflight>>
  ELSE IF UserInvalid(updated) # {}
  THEN /\ last' = rsp(Answer(req, 500))
       /\ UNCHANGED <<users, menuItems, orders, reservations, nextId, issued, now, inflight>>
  ELSE /\ users' = [users EXCEPT ![userId] = updated]
       /\ last' = rsp(Answer(req, 200))
       /\ UNCHANGED <<menuItems, orders, reservations, nextId, issued, now, inflight>>

----------------------------------------------------------------------------
(* routes/auth.js, POST /api/staff: requests that suspend at an await *)

\* models/User.js: the pre-save hook stores the bcrypt hash of the password,
\* comparePassword hashes the candidate and compares.
Hash(password) == <<"bcrypt", password>>

comparePassword(user, candidate) == user.password = Hash(candidate)

\* A collection without the unique index.
EmailNeverTaken(us, email) == FALSE

\* models/User.js: email is unique (a unique index on the collection).
EmailTaken(us, email) == \E u \in DOMAIN us : us[u].email = email

\* User.findOne({ email })
FindOneByEmail(us, email) == {u \in DOMAIN us : us[u].email = email}

\* user.save() of a new document: schema validation, then the insert, which
\* the unique index rejects (E11000) when the email is stored already.
UserSaveError(us, doc) ==
  IF UserInvalid(doc) # {} THEN "ValidationError"
  ELSE IF EmailTaken(us, doc.email) THEN "E11000"
  ELSE "none"

\* A request suspended at an await, to be resumed at stage; doc is the
\* document its handler holds.
Suspended(route, stage, token, id, body, req, doc) ==
  [route |-> route, stage |-> stage, token |-> token,
   id |-> id, body |-> body, req |-> req, doc |-> doc]

Suspend(r) == inflight (+) SetToBag({r})

Resume(r) == inflight (-) SetToBag({r})

CanSuspend == BagCardinality(inflight) < MaxInflight

\* The driver has ObjectIds left for a new user.
CanInsertUser == nextId <= Len(SeedUsers) + MaxUsers

Emails == {"a@mail", "b@mail", "c@mail"}

\* Request bodies of POST /api/auth/register.
RegisterBodies ==
  {[name |-> "Ann", email |-> e, password |-> "secret1"] : e \in Emails}
  \cup {[name |-> "Ann", email |-> "b@mail", password |-> "secret1", role |-> "admin"],
        [email |-> "b@mail", password |-> "secret1"],
        [name |-> "Ann", email |-> "ann", password |-> "secret1"],
        [name |-> "Ann", email |-> "b@mail", password |-> "abc"]}

IsEmail(v) == v \in Emails \cup {"admin@resto", "staff@resto"}

\* The rules of POST /register.
RegisterErrors(body) ==
  {f \in {"name"} : ~Has(body, f)}
  \cup {f \in {"email"} : ~Has(body, f) \/ ~IsEmail(body[f])}
  \cup {f \in {"password"} : ~Has(body, f) \/ body[f] = "abc"}

\* new User({ name, email, password, role }) with role = 'client' by default.
NewRegistered(body) ==
  [name |-> body.name, email |-> body.email, password |-> Hash(body.password),
   role |-> IF Has(body, "role") THEN body.role ELSE "client"]

\* POST /api/auth/register up to await user.save()
RegisterFind(body) ==
  LET req == check(NewReq)
      rsp(r) == [Response("POST /auth/register", NoToken, "", r) EXCEPT !.body = body]
  IN
  IF RegisterErrors(body) # {}
  THEN /\ last' = [rsp(Answer(req, 400)) EXCEPT !.errs = RegisterErrors(body)]
       /\ UNCHANGED <<store, nextId, issued, now, inflight>>
  ELSE IF FindOneByEmail(users, body.email) # {}
  THEN /\ last' = rsp(Answer(req, 400))
       /\ UNCHANGED <<store, nextId, issued, now, inflight>>
  ELSE /\ CanSuspend
       /\ inflight' = Suspend(Suspended("POST /auth/register", "save", NoToken, "", body,
                                         Handled(req), NewRegistered(body)))
       /\ UNCHANGED <<store, nextId, issued, now, last>>

\* POST /api/auth/register from await user.save() on: the token is signed
\* for the saved user.
RegisterSave(r) ==
  LET rsp(q) == [Response(r.route, r.token, r.id, q) EXCEPT !.body = r.body] IN
  /\ r.route = "POST /auth/register"
  /\ inflight' = Resume(r)
  /\ IF UserSaveError(users, r.doc) # "none"
     THEN /\ last' = rsp([r.req EXCEPT !.status = 500])
          /\ UNCHANGED <<store, nextId, issued, now>>
     ELSE /\ CanInsertUser
          /\ users' = Insert(users, IdPool[nextId], r.doc)
          /\ nextId' = nextId + 1
          /\ issued' = issued \cup {Payload(IdPool[nextId], r.doc.role, now)}
          /\ last' = [rsp([r.req EXCEPT !.status = 200]) EXCEPT !.doc = IdPool[nextId]]
          /\ UNCHANGED <<menuItems, orders, reservations, now>>

\* Request bodies of POST /api/staff.
StaffBodies ==
  {[name |-> "Ann", email |-> e, password |-> "secret1", role |-> "staff", salary |-> 1500] :
     e \in Emails}
  \cup {[name |-> "Ann", email |-> "b@mail", password |-> "secret1", role |-> "admin", salary |-> 1500],
        [name |-> "Ann", email |-> "b@mail", password |-> "secret1", role |-> "client", salary |-> 1500],
        [name |-> "Ann", email |-> "b@mail", password |-> "secret1", role |-> "staff"]}

\* The rules of POST /api/staff.
StaffErrors(body) ==
  RegisterErrors(body)
  \cup {f \in {"role"} : ~Has(body, f) \/ body[f] \notin {"staff", "admin"}}
  \cup {f \in {"salary"} : ~Has(body, f) \/ body[f] < 0}

\* new User({ name, email, password, role, salary })
NewStaff(body) ==
  [name |-> body.name, email |-> body.email, password |-> Hash(body.password),
   role |-> body.role, salary |-> body.salary]

\* POST /api/staff up to await user.save()
StaffPostFind(token, body) ==
  LET req == RunChain(<<Mw("auth", {}), Mw("checkRole", {"admin"}), Mw("check", {})>>, token)
      rsp(r) == [Response("POST /staff", token, "", r) EXCEPT !.body = body]
  IN
  IF req.status # 0
  THEN /\ last' = rsp(req)
       /\ UNCHANGED <<store, nextId, issued, now, inflight>>
  ELSE IF StaffErrors(body) # {}
  THEN /\ last' = [rsp(Answer(req, 400)) EXCEPT !.errs = StaffErrors(body)]
       /\ UNCHANGED <<store, nextId, issued, now, inflight>>
  ELSE IF FindOneByEmail(users, body.email) # {}
  THEN /\ last' = rsp(Answer(req, 400))
       /\ UNCHANGED <<store, nextId, issued, now, inflight>>
  ELSE /\ CanSuspend
       /\ inflight' = Suspend(Suspended("POST /staff", "save", token, "", body,
                                         Handled(req), NewStaff(body)))
       /\ UNCHANGED <<store, nextId, issued, now, last>>

\* POST /api/staff from await user.save() on
StaffPostSave(r) ==
  LET rsp(q) == [Response(r.route, r.token, r.id, q) EXCEPT !.body = r.body] IN
  /\ r.route = "POST /staff"
  /\ inflight' = Resume(r)
  /\ IF UserSaveError(users, r.doc) # "none"
     THEN /\ last' = rsp([r.req EXCEPT !.status = 500])
          /\ UNCHANGED <<store, nextId, issued, now>>
     ELSE /\ CanInsertUser
          /\ users' = Insert(users, IdPool[nextId], r.doc)
          /\ nextId' = nextId + 1
          /\ last' = [rsp([r.req EXCEPT !.status = 200]) EXCEPT !.doc = IdPool[nextId]]
          /\ UNCHANGED <<menuItems, orders, reservations, issued, now>>

\* Request bodies of POST /api/auth/login.
LoginBodies ==
  {[email |-> e, password |-> pw] :
     e \in {"admin@resto", "a@mail", "b@mail"}, pw \in {"secret1", "wrong"}}
  \cup {[email |-> "a@mail"], [email |-> "ann", password |-> "secret1"]}

\* The rules of POST /login.
LoginErrors(body) ==
  {f \in {"email"} : ~Has(body, f) \/ ~IsEmail(body[f])}
  \cup {f \in {"password"} : ~Has(body, f)}

\* POST /api/auth/login: reads the store once and writes nothing; the token
\* is signed for the user it read.
Login(body) ==
  LET req == check(NewReq)
      rsp(r) == [Response("POST /auth/login", NoToken, "", r) EXCEPT !.body = body]
      found == FindOneByEmail(users, body.email)
      user == CHOOSE u \in found : TRUE
  IN
  IF LoginErrors(body) # {}
  THEN /\ last' = [rsp(Answer(req, 400)) EXCEPT !.errs = LoginErrors(body)]
       /\ UNCHANGED <<store, nextId, issued, now, inflight>>
  ELSE IF found = {} \/ ~comparePassword(users[user], body.password)
  THEN /\ last' = rsp(Answer(req, 400))
       /\ UNCHANGED <<store, nextId, issued, now, inflight>>
  ELSE /\ issued' = issued \cup {Payload(user, users[user].role, now)}
       /\ last' = [rsp(Answer(req, 200)) EXCEPT !.doc = user]
       /\ UNCHANGED <<store, nextId, now, inflight>>

\* GET /api/auth/me: the profile of req.user.id, null when no such user.
AuthMe(token) ==
  LET req == RunChain(<<Mw("auth", {})>>, token)
      rsp(r) == Response("GET /auth/me", token, "", r)
  IN
  /\ last' = IF req.status # 0 THEN rsp(req)
             ELSE [rsp(Answer(req, 200)) EXCEPT
                     !.doc = IF req.user.id \in DOMAIN users THEN req.user.id ELSE "null"]
  /\ UNCHANGED <<store, nextId, issued, now, inflight>>

\* Time passes.
Tick ==
  /\ now < MaxTime
  /\ now' = now + 1
  /\ UNCHANGED <<store, nextId, issued, last, inflight>>

\* The user routes whose lookup and insert are separate steps.
NextRegister ==
  \/ \E body \in RegisterBodies : RegisterFind(body)
  \/ \E r \in BagToSet(inflight) : RegisterSave(r)
  \/ \E token \in Tokens, body \in StaffBodies : StaffPostFind(token, body)
  \/ \E r \in BagToSet(inflight) : StaffPostSave(r)

SpecRegister == Init /\ [][NextRegister]_vars

\* The routes that sign tokens and a route that verifies them, as time
\* passes.
NextTokens ==
  \/ \E body \in {b \in RegisterBodies : Has(b, "name") /\ b.email = "b@mail"} : RegisterFind(body)
  \/ \E r \in BagToSet(inflight) : RegisterSave(r)
  \/ \E body \in {b \in LoginBodies : Has(b, "password") => b.email = "a@mail"} : Login(body)
  \/ \E token \in Tokens : AuthMe(token)
  \/ Tick

SpecTokens == Init /\ [][NextTokens]_vars

----------------------------------------------------------------------------
(* routes/staff.js: the list, the update and the statistics *)

\* GET /api/staff
StaffGet(token) ==
  LET req == RunChain(<<Mw("auth", {}), Mw("checkRole", {"admin"})>>, token)
      rsp(r) == Response("GET /staff", token, "", r)
  IN
  /\ last' = IF req.status # 0 THEN rsp(req)
             ELSE [rsp(Answer(req, 200)) EXCEPT
                     !.ids = {u \in DOMAIN users : users[u].role = "staff"}]
  /\ UNCHANGED <<store, nextId, issued, now, inflight>>

\* Request bodies of PUT /api/staff/:id.
StaffUpdates ==
  {[salary |-> 2500], [salary |-> 2500, name |-> "Bob"], [salary |-> 0, name |-> "Bob"],
   [name |-> "Bob"], [salary |-> -1]}

\* The rule of PUT /api/staff/:id.
StaffUpdateErrors(body) == {f \in {"salary"} : ~Has(body, f) \/ body[f] < 0}

\* if (req.body.salary) user.salary = ...; if (req.body.name) user.name = ...
StaffSetFields(doc, body) ==
  [f \in DOMAIN doc \cup {g \in {"salary"} : body.salary # 0} |->
     IF f = "salary" /\ body.salary # 0 THEN body.salary
     ELSE IF f = "name" /\ Has(body, "name") THEN body.name
     ELSE doc[f]]

\* The answer of the handler of PUT /api/staff/:id.
StaffPutStatus(us, id, body) ==
  IF StaffUpdateErrors(body) # {} THEN 400
  ELSE IF FindById(us, id) # "found" THEN 404
  ELSE IF ~IsStaffMember(us[id]) THEN 400
  ELSE IF UserInvalid(StaffSetFields(us[id], body)) # {} THEN 500
  ELSE 200

\* A handler that saves the user before it tests the role.
StaffPutSavesFirst(us, id, body) ==
  IF StaffUpdateErrors(body) = {} /\ FindById(us, id) = "found"
  THEN [us EXCEPT ![id] = StaffSetFields(us[id], body)]
  ELSE us

\* The collection after the handler of PUT /api/staff/:id.
StaffPutSaves(us, id, body) ==
  IF StaffPutStatus(us, id, body) = 200 THEN [us EXCEPT ![id] = StaffSetFields(us[id], body)] ELSE us

\* PUT /api/staff/:id
StaffPut(token, id, body) ==
  LET req == RunChain(<<Mw("auth", {}), Mw("checkRole", {"admin"}), Mw("check", {})>>, token)
      rsp(r) == [Response("PUT /staff/:id", token, id, r) EXCEPT !.body = body]
  IN
  IF req.status # 0
  THEN /\ last' = rsp(req)
       /\ UNCHANGED <<store, nextId, issued, now, inflight>>
  ELSE /\ users' = StaffPutSaves(users, id, body)
       /\ last' = [rsp(Answer(req, StaffPutStatus(users, id, body))) EXCEPT
                     !.errs = StaffUpdateErrors(body)]
       /\ UNCHANGED <<menuItems, orders, reservations, nextId, issued, now, inflight>>

\* GET /api/staff/stats: no GET /:id is registered on this router.
StaffGetStats(token) ==
  LET req == RunChain(<<Mw("auth", {}), Mw("checkRole", {"admin"})>>, token)
      rsp(r) == Response("GET /staff/stats", token, "", r)
  IN
  /\ last' = IF req.status # 0 THEN rsp(req)
             ELSE [rsp(Answer(req, 200)) EXCEPT
                     !.count = Cardinality({u \in DOMAIN users : users[u].role = "staff"}),
                     !.ids = {u \in DOMAIN users : users[u].role = "admin"}]
  /\ UNCHANGED <<store, nextId, issued, now, inflight>>

\* The routes of /api/staff that read or update a user.
NextStaff ==
  \/ \E token \in Tokens : StaffGet(token)
  \/ \E token \in Tokens, id \in UserPathIds, body \in StaffUpdates : StaffPut(token, id, body)
  \/ \E token \in Tokens, id \in UserPathIds : StaffDelete(token, id)
  \/ \E token \in Tokens : StaffGetStats(token)

SpecStaff == Init /\ [][NextStaff]_vars

----------------------------------------------------------------------------
(* PUT /api/admin/users/:userId/role, one step per await *)

\* auth, then isAdmin up to the answer of await User.findById(req.user.id)
AdminRoleIsAdmin(token, userId, body) ==
  LET req == RunChain(<<Mw("auth", {}), Mw("isAdmin", {})>>, token)
      rsp(r) == [Response("PUT /admin/users/:userId/role", token, userId, r) EXCEPT !.body = body]
  IN
  IF req.status # 0
  THEN /\ last' = rsp(req)
       /\ UNCHANGED <<store, nextId, issued, now, inflight>>
  ELSE /\ CanSuspend
       /\ inflight' = Suspend(Suspended("PUT /admin/users/:userId/role", "handler", token,
                                         userId, body, req, NoBody))
       /\ UNCHANGED <<store, nextId, issued, now, last>>

\* The handler up to the answer of await User.findById(userId)
AdminRoleFind(r) ==
  LET rsp(q) == [Response(r.route, r.token, r.id, q) EXCEPT !.body = r.body]
      found == FindById(users, r.id)
  IN
  /\ r.route = "PUT /admin/users/:userId/role"
  /\ r.stage = "handler"
  /\ IF ~Has(r.body, "role") \/ r.body.role \notin {"client", "staff", "admin"}
     THEN /\ last' = rsp(Answer(r.req, 400))
          /\ inflight' = Resume(r)
     ELSE IF found = "CastError"
     THEN /\ last' = rsp(Answer(r.req, 500))
          /\ inflight' = Resume(r)
     ELSE IF found = "null"
     THEN /\ last' = rsp(Answer(r.req, 404))
          /\ inflight' = Resume(r)
     ELSE /\ inflight' = Resume(r) (+) SetToBag({[r EXCEPT !.stage = "save", !.req = Handled(r.req),
                                                    !.doc = users[r.id]]})
          /\ UNCHANGED last
  /\ UNCHANGED <<store, nextId, issued, now>>

\* The handler from the test of the caller's own id to the answer of
\* await user.save(), which writes the modified path role of the document.
AdminRoleSave(r) ==
  LET rsp(q) == [Response(r.route, r.token, r.id, q) EXCEPT !.body = r.body]
      updated == [r.doc EXCEPT !.role = r.body.role]
  IN
  /\ r.route = "PUT /admin/users/:userId/role"
  /\ r.stage = "save"
  /\ inflight' = Resume(r)
  /\ IF HexStr(r.id) = HexStr(r.req.user.id) /\ r.body.role # "admin"
     THEN /\ last' = rsp([r.req EXCEPT !.status = 400])
          /\ UNCHANGED users
     ELSE IF UserInvalid(updated) # {} \/ r.id \notin DOMAIN users
     THEN /\ last' = rsp([r.req EXCEPT !.status = 500])
          /\ UNCHANGED users
     ELSE /\ users' = [users EXCEPT ![r.id].role = r.body.role]
          /\ last' = rsp([r.req EXCEPT !.status = 200])
  /\ UNCHANGED <<menuItems, orders, reservations, nextId, issued, now>>

\* Values of :userId of the concurrent role updates: the admin, the staff
\* member and an ObjectId of no user.
RolePathIds == {IdPool[1], IdPool[2], IdPool[Len(SeedUsers) + 1]}

\* Concurrent role updates.
NextRoles ==
  \/ \E token \in Tokens, id \in RolePathIds, body \in {b \in RoleBodies : Has(b, "role") /\ b.role # "client"} :
       AdminRoleIsAdmin(token, id, body)
  \/ \E r \in BagToSet(inflight) : AdminRoleFind(r)
  \/ \E r \in BagToSet(inflight) : AdminRoleSave(r)

SpecRoles == Init /\ [][NextRoles]_vars

----------------------------------------------------------------------------
(* The routes that delete, over a populated store *)

\* A store in which the client has placed an order, the staff have added a
\* menu item and a reservation has been made.
InitPopulated ==
  /\ users = [u \in UserIds |-> SeedUsers[CHOOSE i \in 1..Len(SeedUsers) : IdPool[i] = u]]
  /\ orders = Insert(EmptyColl, IdPool[Len(SeedUsers) + 1],
                     NewOrder(IdPool[Len(SeedUsers)], [items |-> "array", totalAmount |-> 10]))
  /\ menuItems = Insert(EmptyColl, IdPool[Len(SeedUsers) + 2],
                        NewMenuItem([name |-> "plat", price |-> 8, category |-> "Plats"]))
  /\ reservations = Insert(EmptyColl, IdPool[Len(SeedUsers) + 3],
                           NewReservation(CHOOSE b \in CompleteReservations :
                                            b.type = "surPlace" /\ b.status = "confirmed"))
  /\ nextId = Len(SeedUsers) + 4
  /\ issued = {Payload(u, SeedUsers[CHOOSE i \in 1..Len(SeedUsers) : IdPool[i] = u].role, 0) : u \in UserIds}
  /\ now = 0
  /\ inflight = EmptyBag
  /\ last = Response("none", NoToken, "", NewReq)

\* Values of :id on the delete routes: the documents of the collection, one
\* ObjectId of no document, and a malformed id.
PopulatedPathIds(coll) == DOMAIN coll \cup {IdPool[nextId], "stats"}

NextRemove ==
  \/ \E token \in Tokens, id \in PopulatedPathIds(orders) : OrdersDelete(token, id)
  \/ \E token \in Tokens, id \in PopulatedPathIds(menuItems) : MenuDelete(token, id)
  \/ \E token \in Tokens, id \in PopulatedPathIds(reservations) : ReservationsDelete(token, id)
  \/ \E token \in Tokens, id \in UserPathIds : StaffDelete(token, id)
  \/ \E token \in Tokens, id \in UserPathIds, body \in RoleBodies : AdminPutRole(token, id, body)

SpecRemove == InitPopulated /\ [][NextRemove]_vars

----------------------------------------------------------------------------
Next ==
  \/ NextOrders \/ NextMenu \/ NextReservations \/ NextDispatch
  \/ NextRegister \/ NextTokens \/ NextStaff \/ NextRoles \/ NextRemove

Spec == Init /\ [][Next]_vars

----------------------------------------------------------------------------
(* Properties *)

PublicRoutes ==
  {"POST /auth/register", "POST /auth/login", "GET /menu", "GET /menu/categories",
   "POST /reservations", "POST /reservations/new"}

\* The routes documented as staff or admin only.
GatedRoutes ==
  {"POST /menu", "PUT /menu/:id", "DELETE /menu/:id", "GET /menu/stats",
   "PUT /orders/:id", "GET /reservations", "GET /reservations/:id",
   "PUT /reservations/:id", "DELETE /reservations/:id",
   "PATCH /reservations/:id/status", "DELETE /staff/:id",
   "PUT /admin/users/:userId/role"}

\* C1: a request without a token on a private route is answered 401 by the
\* token verifier, before any role gate, validator or handler runs, and the
\* store is unchanged.
C1_NoTokenUnauthorized ==
  [][(last'.token.kind = "none" /\ last'.route \notin PublicRoutes \cup {"none"})
       => (last'.status = 401 /\ last'.trace = <<"auth">> /\ store' = store)]_vars

\* C2: a caller whose verified role is client is answered 403 on every
\* staff/admin-only route, before the validator or the handler runs, and
\* nothing is stored.
C2_ClientForbidden ==
  [][(last'.token.kind = "valid" /\ last'.token.role = "client"
        /\ last'.route \in GatedRoutes)
       => (/\ last'.status = 403
           /\ \A i \in 1..Len(last'.trace) : last'.trace[i] \notin {"check", "handler"}
           /\ store' = store)]_vars

\* C3: whenever the role gate runs, the token verifier has run before it on
\* the same request.
C3_GateAfterVerifier ==
  \A i \in 1..Len(last.trace) :
    last.trace[i] = "checkRole" => \E j \in 1..(i - 1) : last.trace[j] = "auth"

\* C4: GET /orders shows a client exactly the orders they own and shows
\* staff and admin every order; GET /orders/:id of an existing order answers
\* a client with the order when they own it and with 403 when they do not,
\* and answers staff and admin with the order.
C4_OrderVisibility ==
  /\ (last.route = "GET /orders" /\ last.token.kind = "valid") =>
       /\ last.status = 200
       /\ last.ids = IF last.token.role = "client"
                     THEN {o \in DOMAIN orders : orders[o].user = last.token.id}
                     ELSE DOMAIN orders
  /\ (last.route = "GET /orders/:id" /\ last.token.kind = "valid"
        /\ last.id \in DOMAIN orders) =>
       IF last.token.role = "client" /\ orders[last.id].user # last.token.id
       THEN last.status = 403
       ELSE last.status = 200 /\ last.doc = last.id

\* C5: DELETE /orders/:id by a client changes an order's status only when
\* the order is the one addressed, the client owns it and it is pending, and
\* then to cancelled.
C5_ClientCancelsOwnPending ==
  [][(last'.route = "DELETE /orders/:id" /\ last'.token.role = "client") =>
       \A o \in DOMAIN orders :
         /\ o \in DOMAIN orders'
         /\ orders'[o].status # orders[o].status =>
              /\ o = last'.id
              /\ orders[o].user = last'.token.id
              /\ orders[o].status = "pending"
              /\ orders'[o].status = "cancelled"]_vars

\* The collection a create route inserts into.
CreatedIn(route) == IF route = "POST /orders" THEN orders ELSE reservations

CreateRoutes == {"POST /orders", "POST /reservations", "POST /reservations/new"}

\* C6: every record a create route stores is stored and returned with
\* status pending.
C6_CreatedPending ==
  (last.route \in CreateRoutes /\ last.status \in {200, 201}) =>
    /\ last.doc \in DOMAIN CreatedIn(last.route)
    /\ CreatedIn(last.route)[last.doc].status = "pending"
    /\ last.docStatus = "pending"

\* The documents of a collection other than id are the same in c and d.
SameButFor(id, c, d) ==
  /\ DOMAIN c = DOMAIN d
  /\ \A x \in DOMAIN c \ {id} : c[x] = d[x]

\* Document d is document c with at most its status changed.
OnlyStatusDiffers(c, d) ==
  /\ DOMAIN c = DOMAIN d
  /\ \A f \in DOMAIN c \ {"status"} : c[f] = d[f]

\* An update of coll to coll2 that touches no more than the status of id.
StatusUpdate(id, coll, coll2) ==
  /\ SameButFor(id, coll, coll2)
  /\ OnlyStatusDiffers(coll[id], coll2[id])

UpdateStatusRoutes ==
  {"PUT /orders/:id", "PUT /reservations/:id", "PATCH /reservations/:id/status"}

\* C7: an accepted status update by staff or admin on an existing id
\* answers 200 and changes only the status of that record; on an absent id
\* it answers 404 and changes nothing.
C7_UpdateStatusFrame ==
  [][(/\ last'.route \in UpdateStatusRoutes
      /\ last'.token.kind = "valid"
      /\ last'.token.role \in {"staff", "admin"}
      /\ last'.status # 400) =>
       IF last'.route = "PUT /orders/:id"
       THEN IF last'.id \in DOMAIN orders
            THEN last'.status = 200 /\ StatusUpdate(last'.id, orders, orders')
            ELSE last'.status = 404 /\ store' = store
       ELSE IF last'.id \in DOMAIN reservations
            THEN /\ last'.status = 200
                 /\ StatusUpdate(last'.id, reservations, reservations')
                 /\ <<users, menuItems, orders>>' = <<users, menuItems, orders>>
            ELSE last'.status = 404 /\ store' = store]_vars

\* C8: a menu item whose DELETE succeeded is stored with available false; an
\* item whose available flag is false is in no GET /menu response, and its
\* id still resolves to it.
C8_SoftDeletedHidden ==
  /\ (last.route = "DELETE /menu/:id" /\ last.status = 200) =>
       /\ FindById(menuItems, last.id) = "found"
       /\ ~menuItems[last.id].available
  /\ \A m \in DOMAIN menuItems :
       ~menuItems[m].available =>
         /\ m \notin MenuList(menuItems)
         /\ last.route = "GET /menu" => m \notin last.ids

\* C8: DELETE /menu/:id has just succeeded on one item while another item
\* is still listed.
C8_Witness ==
  /\ last.route = "DELETE /menu/:id"
  /\ last.status = 200
  /\ last.id \notin MenuList(menuItems)
  /\ MenuList(menuItems) # {}

\* C9 as stated: no request removes a user, a menu item or an order.
C9_NeverRemoved ==
  [][/\ DOMAIN users \subseteq DOMAIN users'
     /\ DOMAIN menuItems \subseteq DOMAIN menuItems'
     /\ DOMAIN orders \subseteq DOMAIN orders']_vars

\* C9, amended: no request removes a menu item or an order; a user is
\* removed only by DELETE /staff/:id, and only when their stored role is
\* staff or admin.
C9_OnlyStaffRemoved ==
  [][/\ DOMAIN menuItems \subseteq DOMAIN menuItems'
     /\ DOMAIN orders \subseteq DOMAIN orders'
     /\ \A u \in DOMAIN users \ DOMAIN users' :
          /\ users[u].role \in {"staff", "admin"}
          /\ last'.route = "DELETE /staff/:id"
          /\ last'.id = u]_vars

\* C9: a staff member and the reservation have been removed, the order has
\* been cancelled and the menu item deleted, and both are still stored.
C9_Witness ==
  /\ DOMAIN users # UserIds
  /\ reservations = EmptyColl
  /\ \E o \in DOMAIN orders : orders[o].status = "cancelled"
  /\ \E m \in DOMAIN menuItems : ~menuItems[m].available

\* The fields the data model requires of a create request's body.
RequiredOf(route, body) ==
  IF route = "POST /orders" THEN {"items", "totalAmount"}
  ELSE {"name", "email", "phone", "date", "time", "type", "totalAmount"}
         \cup {f \in {"numberOfPeople"} : Has(body, "type") /\ body.type = "surPlace"}
         \cup {f \in {"address"} : Has(body, "type") /\ body.type = "livraison"}

\* C10: a create request whose body lacks a required field is answered 400
\* with an error naming the field, and stores nothing.
C10_MissingFieldRejected ==
  [][last'.route \in CreateRoutes =>
       \A f \in RequiredOf(last'.route, last'.body) :
         ~Has(last'.body, f) =>
           /\ last'.status = 400
           /\ f \in last'.errs
           /\ store' = store]_vars

C12_TokenLifetime ==
  [][/\ \A c \in issued' \ issued :
          /\ c.exp = now + JwtExpire
          /\ c.id \in DOMAIN users'
          /\ c.role = users'[c.id].role
          /\ last'.route \in {"POST /auth/register", "POST /auth/login"}
     /\ (last'.route = "GET /auth/me" /\ last'.token.kind = "valid") =>
          IF last'.at - (last'.token.exp - JwtExpire) < JwtExpire
          THEN /\ last'.status = 200
               /\ last'.user = [defined |-> TRUE, id |-> last'.token.id,
                                role |-> last'.token.role]
          ELSE /\ last'.status = 401
               /\ last'.trace = <<"auth">>
               /\ last'.user = Undefined]_vars

\* A token signed at a login or registration after the start has been
\* presented once its lifetime had elapsed, and was refused.
C12_Witness ==
  /\ last.route = "GET /auth/me"
  /\ last.token.kind = "valid"
  /\ last.token.exp > JwtExpire
  /\ last.at >= last.token.exp
  /\ last.status = 401

\* C13: in every reachable state the status of every stored reservation
\* is one of pending, confirmed, rejected, delivered, completed.
C13_ReservationStatusInEnum ==
  \A id \in DOMAIN reservations :
    reservations[id].status \in {"pending", "confirmed", "rejected", "delivered", "completed"}

\* C14: a request answered 400, 401, 403 or 404 leaves the four
\* collections exactly as they were before the request.
C14_RefusalsWriteNothing ==
  [][last'.status \in {400, 401, 403, 404} => store' = store]_vars

\* PUT /staff/:id has passed the token verifier, the role gate and the rule
\* and was refused by its handler because the user is not a staff member.
C14_Witness ==
  /\ last.route = "PUT /staff/:id"
  /\ last.status = 400
  /\ last.errs = {}
  /\ last.trace = <<"auth", "checkRole", "check", "handler">>
  /\ last.id \in DOMAIN users
  /\ ~Has(users[last.id], "salary")

\* C15: a GET /orders/stats and a GET /reservations/stats from a staff or
\* admin caller are answered by the statistics handler with the counts, and
\* a GET /reservations/all is answered by the list-all handler.
C15_StatsAndAllDispatched ==
  /\ ( /\ last.route \in {"GET /orders", "GET /orders/:id", "GET /orders/stats"}
       /\ last.id = "stats"
       /\ last.user.defined /\ last.user.role \in {"staff", "admin"} )
     => /\ last.route = "GET /orders/stats"
        /\ last.status = 200
        /\ last.count = Cardinality(DOMAIN orders)
  /\ ( /\ last.route \in {"GET /reservations", "GET /reservations/:id",
                          "GET /reservations/all", "GET /reservations/stats"}
       /\ last.id = "stats"
       /\ last.user.defined /\ last.user.role \in {"staff", "admin"} )
     => /\ last.route = "GET /reservations/stats"
        /\ last.status = 200
        /\ last.count = Cardinality(DOMAIN reservations)
  /\ ( /\ last.route \in {"GET /reservations", "GET /reservations/:id",
                          "GET /reservations/all", "GET /reservations/stats"}
       /\ last.id = "all" )
     => last.route = "GET /reservations/all"

\* C16: the order that POST /orders stores has as its user the id of the
\* authenticated caller, whatever the request body.
C16_OrderOwnedByCaller ==
  (last.route = "POST /orders" /\ last.status \in {200, 201}) =>
    /\ last.doc \in DOMAIN orders
    /\ orders[last.doc].user = last.user.id

\* The /staff and /admin routes.
AdminOnlyRoutes ==
  {"GET /staff", "POST /staff", "PUT /staff/:id", "DELETE /staff/:id", "GET /staff/stats",
   "PUT /admin/users/:userId/role"}

\* C17: an admin-only operation succeeds only for a caller whose stored role
\* is admin at the time of the request: a user whose role was changed away
\* from admin performs none with a token issued before the change.
C17_AdminOnlyByStoredRole ==
  [][(/\ last'.route \in AdminOnlyRoutes
      /\ last'.status = 200
      /\ last'.user.id \in DOMAIN users)
     => users[last'.user.id].role = "admin"]_vars

\* C18: starting with an admin, after any interleaving of
\* PUT /admin/users/:userId/role requests at least one user has role admin.
C18_AlwaysAnAdmin ==
  \E u \in DOMAIN users : users[u].role = "admin"

====
